---------------------------- MODULE Spec2Model ----------------------------
(***************************************************************************)
(* A model of playbooks/ec2.py, the EC2 external inventory script: the    *)
(* Ec2Inventory class (grouping engine, cache store, query facade) and    *)
(* the RETRIES loop that runs it.                                          *)
(*                                                                         *)
(* Python strings are sequences of one-character strings, so that to_safe *)
(* and the 'tag_' substring test work on characters as the code does.     *)
(* Python dicts are functions whose DOMAIN is the set of keys; the empty   *)
(* dict is <<>>.  A JSON text is a tagged value: an object (a dict) or an *)
(* array.                                                                  *)
(***************************************************************************)
EXTENDS Integers, Sequences, FiniteSets, TLC

(***************************************************************************)
(* Bounds of the model.                                                    *)
(***************************************************************************)
\* records the adapter hands over in one process, all calls together
MaxRecords == 2
\* records in one answer of the adapter
MaxPerCall == 1
\* the configured cache_max_age (ec2.ini), in clock ticks
CacheMaxAge == 1

\* the longest word handed to to_safe on its own
MaxLen == 3
\* the most calls of push on one key
MaxPushes == 3

\* the clock runs from 0 to MaxTime: up to the age at which the cache expires
MaxTime == CacheMaxAge

\* the slip of a loop that goes round once more
RETRIES_one_more == 3 + 1

\* RETRIES = 3
RETRIES == 3

(***************************************************************************)
(* Strings.                                                                *)
(***************************************************************************)
\* Python's None, where a string is expected
None == <<"None">>

\* Python truthiness of a string-or-None: None and '' are false
Truthy(s) == s # None /\ s # <<>>

Lower == {"a","b","c","d","e","f","g","h","i","j","k","l","m",
          "n","o","p","q","r","s","t","u","v","w","x","y","z"}
Upper == {"A","B","C","D","E","F","G","H","I","J","K","L","M",
          "N","O","P","Q","R","S","T","U","V","W","X","Y","Z"}
Digit == {"0","1","2","3","4","5","6","7","8","9"}

\* the characters the pattern [^A-Za-z0-9\-] does not match
SafeChar(c) == c \in Lower \cup Upper \cup Digit \cup {"-"}


\* the slip of a replacement that is itself replaced again: two underscores
RECURSIVE to_safe_doubled(_)
to_safe_doubled(word) ==
    IF word = <<>> THEN <<>>
    ELSE (IF SafeChar(Head(word)) THEN <<Head(word)>> ELSE <<"_", "_">>)
         \o to_safe_doubled(Tail(word))

\* the slip of a character class without the hyphen
to_safe_no_hyphen(word) ==
    [i \in 1..Len(word) |-> IF SafeChar(word[i]) /\ word[i] # "-" THEN word[i] ELSE "_"]

\* re.sub("[^A-Za-z0-9\-]", "_", word)
to_safe(word) == [i \in 1..Len(word) |-> IF SafeChar(word[i]) THEN word[i] ELSE "_"]

\* Python's  pat in word  on strings
StrContains(word, pat) ==
    \E i \in 1..(Len(word) - Len(pat) + 1) : SubSeq(word, i, i + Len(pat) - 1) = pat

S_tag == <<"t","a","g","_">>
S_first_in == <<"f","i","r","s","t","_","i","n","_">>
S_type == <<"t","y","p","e","_">>
S_key == <<"k","e","y","_">>
S_security_group == <<"s","e","c","u","r","i","t","y","_","g","r","o","u","p","_">>
S_rds == <<"r","d","s","_">>
S_rds_parameter_group == S_rds \o <<"p","a","r","a","m","e","t","e","r","_","g","r","o","u","p","_">>
S_ec2 == <<"e","c","2","_">>

(***************************************************************************)
(* Dicts.                                                                  *)
(***************************************************************************)
\* the slip of setdefault for an assignment: an existing key keeps its value
DictSet_keep(my_dict, key, value) ==
    IF key \in DOMAIN my_dict THEN my_dict
    ELSE [k \in DOMAIN my_dict \cup {key} |-> IF k = key THEN value ELSE my_dict[k]]

\* my_dict[key] = value
DictSet(my_dict, key, value) ==
    [k \in DOMAIN my_dict \cup {key} |-> IF k = key THEN value ELSE my_dict[k]]

\* the slip of a group kept as a set: an element already there is not added
push_unique(my_dict, key, element) ==
    IF key \in DOMAIN my_dict
      THEN (IF \E i \in 1..Len(my_dict[key]) : my_dict[key][i] = element
              THEN my_dict
              ELSE [my_dict EXCEPT ![key] = Append(@, element)])
      ELSE [k \in DOMAIN my_dict \cup {key} |-> IF k = key THEN <<element>> ELSE my_dict[k]]

\* the slip of a push that creates the list and never appends to it
push_no_append(my_dict, key, element) ==
    IF key \in DOMAIN my_dict THEN my_dict
    ELSE [k \in DOMAIN my_dict \cup {key} |-> IF k = key THEN <<element>> ELSE my_dict[k]]

\* push: append to the list at key, or create it
push(my_dict, key, element) ==
    IF key \in DOMAIN my_dict
      THEN [my_dict EXCEPT ![key] = Append(@, element)]
      ELSE DictSet(my_dict, key, <<element>>)

\* the slip a write-once group guards against: the later value replaces the first
keep_first_overwrite(my_dict, key, element) == DictSet(my_dict, key, <<element>>)

\* keep_first: create the list at key only if the key is absent
keep_first(my_dict, key, element) ==
    IF key \notin DOMAIN my_dict
      THEN DictSet(my_dict, key, <<element>>)
      ELSE my_dict

\* push every element of a sequence of keys, in order
RECURSIVE PushAll(_, _, _)
PushAll(my_dict, keys, element) ==
    IF keys = <<>> THEN my_dict
    ELSE PushAll(push(my_dict, Head(keys), element), Tail(keys), element)

(***************************************************************************)
(* JSON.                                                                   *)
(***************************************************************************)
\* json_format_dict: in tags-only mode the data is replaced by the list of
\* its keys that contain 'tag_'; json.dumps then writes an array, otherwise
\* an object
json_format_dict(data, tags_only) ==
    IF tags_only
      THEN [fmt |-> "array", val |-> {k \in DOMAIN data : StrContains(k, S_tag)}]
      ELSE [fmt |-> "object", val |-> data]

\* json.loads: an object becomes a dict, an array a list
json_loads(text) ==
    IF text.fmt = "object" THEN [t |-> "dict", v |-> text.val]
    ELSE [t |-> "list", v |-> text.val]

\* the in-memory index: a dict, or whatever json.loads made of the index file
EmptyDict == [t |-> "dict", v |-> <<>>]

\* len(self.index)
PyLen(x) == IF x.t = "dict" THEN Cardinality(DOMAIN x.v) ELSE Cardinality(x.v)

\* the slip of a test that never finds the host
PyIn_never(host, x) == FALSE

\* host in self.index
PyIn(host, x) == IF x.t = "dict" THEN host \in DOMAIN x.v ELSE host \in x.v

(***************************************************************************)
(* Settings (read_settings) and what the adapter can hand over.            *)
(***************************************************************************)
R1 == <<"e","-","1">>
R2 == <<"w","-","2">>
\* self.regions
regions == <<R1, R2>>

\* ec2.ini: destination_variable and vpc_destination_variable
destination_variable == "public_dns_name"
vpc_destination_variable == "ip_address"

Z1 == R1 \o <<"a">>
Z2 == R2 \o <<"b">>
A1 == <<"1",".","1">>
A2 == <<"2",".","2">>
E1 == <<"d",".","x">>
I1 == <<"i","-","1">>
I2 == <<"i","-","2">>
I3 == <<"i","-","3">>
DB == <<"d","b">>
S_running == <<"r","u","n","n","i","n","g">>
S_stopped == <<"s","t","o","p","p","e","d">>
S_available == <<"a","v","a","i","l","a","b","l","e">>
S_creating == <<"c","r","e","a","t","i","n","g">>
T1 == <<"t","2",".","m">>

\* a compute record of the adapter (a boto Instance)
Instance(id, state, subnet_id, dns, ip, placement, key_name, has_groups, groups, tags) ==
    [id |-> id, state |-> state, subnet_id |-> subnet_id, public_dns_name |-> dns,
     ip_address |-> ip, placement |-> placement, instance_type |-> T1,
     key_name |-> key_name, has_groups |-> has_groups, groups |-> groups, tags |-> tags,
     has_placement |-> TRUE]

\* running, outside a VPC, one tag env=p.1, no key pair, no security group
C_plain == Instance(I1, S_running, None, A1, None, Z1, None, TRUE, <<>>,
                    << <<<<"e","n","v">>, <<"p",".","1">>>> >>)
\* running, in a VPC, with a key pair and a security group; its tag env=p_1
\* sanitizes to the same group name as env=p.1
C_vpc == Instance(I2, S_running, <<"s","-","1">>, <<>>, A2, Z2, <<"k","1">>, TRUE,
                  << [id |-> <<"s","g","-","1">>, name |-> <<"w","e","b">>] >>,
                  << <<<<"e","n","v">>, <<"p","_","1">>>> >>)
\* running, same tag as C_plain, another address
C_same_tag == Instance(I3, S_running, None, A2, None, Z1, None, TRUE, <<>>,
                       << <<<<"e","n","v">>, <<"p",".","1">>>> >>)
C_stopped == Instance(I3, S_stopped, None, A2, None, Z1, None, TRUE, <<>>, <<>>)
\* running in a private VPC subnet: the VPC-scoped address is empty
C_private == Instance(I3, S_running, <<"s","-","1">>, A2, <<>>, Z1, None, TRUE, <<>>,
                      << <<<<"e","n","v">>, <<"p",".","1">>>> >>)
\* running, outside a VPC, no public name
C_no_dns == Instance(I3, S_running, <<>>, None, A2, Z1, None, TRUE, <<>>, <<>>)
\* a record of a boto older than 2.3.0: no groups attribute
C_old_boto == Instance(I3, S_running, None, A2, None, Z2, None, FALSE, <<>>, <<>>)
\* a record without the placement attribute
C_no_placement == [C_same_tag EXCEPT !.has_placement = FALSE]

Instances == {C_plain, C_vpc, C_same_tag, C_stopped, C_private, C_no_dns, C_old_boto,
              C_no_placement}

\* a database record of the adapter (a boto DBInstance)
DBInstance(id, status, address, security_group) ==
    [id |-> id, status |-> status, endpoint |-> <<address, 5432>>,
     availability_zone |-> Z1, instance_class |-> <<"d","b",".","m">>,
     has_security_group |-> TRUE, security_group |-> security_group,
     engine |-> <<"p","g">>, parameter_group |-> <<"d","e","f",".","9">>,
     has_engine |-> TRUE]

D_plain == DBInstance(DB, S_available, E1, <<"s","g">>)
\* the same identifier in another region, at the address of C_plain
D_twin == DBInstance(DB, S_available, A1, None)
D_creating == DBInstance(DB, S_creating, E1, None)
D_no_address == DBInstance(DB, S_available, None, None)
\* a record of a boto older than 2.3.0: no security_group attribute
D_old_boto == [D_plain EXCEPT !.has_security_group = FALSE]
\* a record without the engine attribute
D_no_engine == [D_plain EXCEPT !.has_engine = FALSE]

DBInstances == {D_plain, D_twin, D_creating, D_no_address, D_old_boto, D_no_engine}

\* sequences over S of length at most n
SeqsUpTo(S, n) == UNION {[1..k -> S] : k \in 0..n}

\* the smaller of two numbers
Min(a, b) == IF a < b THEN a ELSE b

\* the answers the adapter can give when  handed  records were handed over before
Answers(S, handed) == SeqsUpTo(S, Min(MaxPerCall, MaxRecords - handed))

(***************************************************************************)
(* Route53: the map from a resource record to the names pointing at it.    *)
(***************************************************************************)
\* one record set of a zone (a boto Record): a name and its resource records
RRSets == { <<>>,
            << [name |-> <<"n",".","x",".">>, resource_records |-> <<A1>>] >> }

\* record_name[:-1] when record_name.endswith('.')
StripDot(name) ==
    IF name # <<>> /\ name[Len(name)] = "." THEN SubSeq(name, 1, Len(name) - 1) ELSE name

\* the loop of get_route53_records over the record sets of the zones
RECURSIVE route53_map(_, _)
route53_map(records, rrsets) ==
    IF rrsets = <<>> THEN records
    ELSE LET rs == Head(rrsets)
             name == StripDot(rs.name)
             res == {rs.resource_records[i] : i \in 1..Len(rs.resource_records)}
             upd == [r \in DOMAIN records \cup res |->
                        (IF r \in DOMAIN records THEN records[r] ELSE {})
                        \cup (IF r \in res THEN {name} ELSE {})]
         IN route53_map(upd, Tail(rrsets))

\* get_instance_route53_names: the names pointing at one of the instance's
\* addresses (the private_* attributes are absent from the records here)
get_instance_route53_names(instance, route53_records) ==
    UNION { route53_records[a] :
              a \in {instance.public_dns_name, instance.ip_address} \cap DOMAIN route53_records }

\* list(name_list): a set in some order
Orders(S) == {s \in [1..Cardinality(S) -> S] : \A x \in S : \E i \in DOMAIN s : s[i] = x}

(***************************************************************************)
(* The grouping engine.  Each operator returns the outcome of the call:    *)
(* st is "ok" (added), "skip_state" or "skip_dest" (returned early),       *)
(* "exit" (sys.exit), "raise" (a TypeError) or "attr_error" (an            *)
(* AttributeError nothing catches), with the inventory and index it        *)
(* leaves.                                                                 *)
(***************************************************************************)
Outcome(st, inventory, index) == [st |-> st, inventory |-> inventory, index |-> index]

\* the slip of naming the tag group with the raw key and value
tag_key_raw(k, v) == S_tag \o k \o <<"=">> \o v

\* key = self.to_safe("tag_" + k + "=" + v)
tag_key(k, v) == to_safe(S_tag \o k \o <<"=">> \o v)

\* for k, v in instance.tags: push tag_k=v, keep_first first_in_tag_k=v
RECURSIVE AddTags(_, _, _)
AddTags(inventory, tags, dest) ==
    IF tags = <<>> THEN inventory
    ELSE LET key == tag_key(Head(tags)[1], Head(tags)[2])
         IN  AddTags(keep_first(push(inventory, key, dest), S_first_in \o key, dest),
                     Tail(tags), dest)

\* the slip of taking every instance, whatever its state
is_running_any(instance) == TRUE

\* instance.state != 'running'  is what add_instance returns on
is_running(instance) == instance.state = S_running

\* instance.status != 'available'  is what add_rds_instance returns on
is_available(instance) == instance.status = S_available

\* the slip of taking the public destination inside a VPC too
instance_dest_public(instance) == instance[destination_variable]

\* the destination add_instance selects
instance_dest(instance) ==
    IF Truthy(instance.subnet_id) THEN instance[vpc_destination_variable]
    ELSE instance[destination_variable]

\* the slip of appending to the id group as to every other group
id_group_push(inventory, id, dest) == push(inventory, id, dest)

\* self.inventory[instance.id] = [dest]
id_group(inventory, id, dest) == DictSet(inventory, id, <<dest>>)

\* the slip of keeping the index entry an endpoint has already
index_entry_keep(index_v, dest, region, id) == DictSet_keep(index_v, dest, <<region, id>>)

\* self.index[dest] = [region, instance.id]
index_entry(index_v, dest, region, id) == DictSet(index_v, dest, <<region, id>>)

\* the sequence of to_safe("security_group_" + group.name)
SecurityGroupKeys(groups) ==
    [i \in 1..Len(groups) |-> to_safe(S_security_group \o groups[i].name)]

\* the slip of reading the attribute with a default: the record is taken as it is
has_placement_default(instance) == TRUE

\* instance.placement resolves
has_placement(instance) == instance.has_placement

add_instance(inventory, index, instance, region, route53_enabled, names) ==
    LET dest == instance_dest(instance)
        inv1 == id_group(inventory, instance.id, dest)
        inv2 == push(inv1, region, dest)
        inv3 == push(inv2, instance.placement, dest)
        inv4 == push(inv3, to_safe(S_type \o instance.instance_type), dest)
        inv5 == IF Truthy(instance.key_name)
                  THEN push(inv4, to_safe(S_key \o instance.key_name), dest)
                  ELSE inv4
        inv6 == PushAll(inv5, SecurityGroupKeys(instance.groups), dest)
        inv7 == AddTags(inv6, instance.tags, dest)
        inv8 == IF route53_enabled THEN PushAll(inv7, names, dest) ELSE inv7
        idx1 == [t |-> "dict", v |-> index_entry(index.v, dest, region, instance.id)]
    IN  IF ~is_running(instance) THEN Outcome("skip_state", inventory, index)
        ELSE IF ~Truthy(dest) THEN Outcome("skip_dest", inventory, index)
        ELSE IF index.t # "dict" THEN Outcome("raise", inventory, index)
        ELSE IF ~has_placement(instance) THEN Outcome("attr_error", inv2, idx1)
        ELSE IF ~instance.has_groups THEN Outcome("exit", inv5, idx1)
        ELSE Outcome("ok", inv8, idx1)

add_rds_instance(inventory, index, instance, region) ==
    LET dest == instance.endpoint[1]
        inv1 == id_group(inventory, instance.id, dest)
        inv2 == push(inv1, region, dest)
        inv3 == push(inv2, instance.availability_zone, dest)
        inv4 == push(inv3, to_safe(S_type \o instance.instance_class), dest)
        inv5 == IF Truthy(instance.security_group)
                  THEN push(inv4, to_safe(S_security_group \o instance.security_group), dest)
                  ELSE inv4
        inv6 == push(inv5, to_safe(S_rds \o instance.engine), dest)
        inv7 == push(inv6, to_safe(S_rds_parameter_group \o instance.parameter_group), dest)
        idx1 == [t |-> "dict", v |-> index_entry(index.v, dest, region, instance.id)]
    IN  IF ~is_available(instance) THEN Outcome("skip_state", inventory, index)
        ELSE IF ~Truthy(dest) THEN Outcome("skip_dest", inventory, index)
        ELSE IF index.t # "dict" THEN Outcome("raise", inventory, index)
        ELSE IF ~instance.has_security_group THEN Outcome("exit", inv4, idx1)
        ELSE IF ~instance.has_engine THEN Outcome("attr_error", inv5, idx1)
        ELSE Outcome("ok", inv7, idx1)

(***************************************************************************)
(* The cache store.                                                        *)
(***************************************************************************)
\* a path with no file
NoFile == [exists |-> FALSE, mtime |-> 0, text |-> [fmt |-> "none", val |-> <<>>]]

\* open(filename, 'w'); cache.write(json_data); cache.close()
WrittenFile(text, time) == [exists |-> TRUE, mtime |-> time, text |-> text]

\* the file between open(filename, 'w') and close(): truncated, holding at most
\* a proper prefix of the text, which is no JSON document
PartFile(time) == [exists |-> TRUE, mtime |-> time, text |-> [fmt |-> "partial", val |-> <<>>]]

\* the payload file the mode selects: cache_path_tags or cache_path_cache
PayloadFile(tags_only, cache_file, tags_file) == IF tags_only THEN tags_file ELSE cache_file

\* the age test with the boundary included: a cache exactly max-age old still counts
fresh_inclusive(mod_time, current_time) == mod_time + CacheMaxAge >= current_time

\* (mod_time + self.cache_max_age) > current_time
fresh(mod_time, current_time) == mod_time + CacheMaxAge > current_time

\* the slip of a validity test that forgets the index file
is_cache_valid_payload_only(tags_only, cache_file, tags_file, index_file, current_time) ==
    LET to_check == IF tags_only THEN tags_file ELSE cache_file
    IN  to_check.exists /\ to_check.mtime + CacheMaxAge > current_time

\* is_cache_valid
is_cache_valid(tags_only, cache_file, tags_file, index_file, current_time) ==
    LET to_check == PayloadFile(tags_only, cache_file, tags_file)
    IN  IF to_check.exists
          THEN IF fresh(to_check.mtime, current_time)
                 THEN index_file.exists
                 ELSE FALSE
          ELSE FALSE

(***************************************************************************)
(* get_host_info's flattening of the fetched instance.                     *)
(***************************************************************************)
\* value.strip(): the records here hold no whitespace but the blank
RECURSIVE LStrip(_)
LStrip(s) == IF s # <<>> /\ Head(s) = " " THEN LStrip(Tail(s)) ELSE s
RECURSIVE RStrip(_)
RStrip(s) == IF s # <<>> /\ s[Len(s)] = " " THEN RStrip(SubSeq(s, 1, Len(s) - 1)) ELSE s
Strip(s) == RStrip(LStrip(s))

\* ','.join(strings)
RECURSIVE Join(_)
Join(strings) ==
    IF strings = <<>> THEN <<>>
    ELSE IF Len(strings) = 1 THEN strings[1]
    ELSE strings[1] \o <<",">> \o Join(Tail(strings))

\* the string-or-None attributes of vars(instance)
StringAttributes == {"id", "state", "subnet_id", "public_dns_name", "ip_address",
                     "placement", "instance_type", "key_name"}

\* the attribute name as characters
AttrName(a) ==
    CASE a = "id" -> <<"i","d">>
      [] a = "state" -> <<"s","t","a","t","e">>
      [] a = "subnet_id" -> <<"s","u","b","n","e","t","_","i","d">>
      [] a = "public_dns_name" -> <<"p","u","b","l","i","c","_","d","n","s","_","n","a","m","e">>
      [] a = "ip_address" -> <<"i","p","_","a","d","d","r","e","s","s">>
      [] a = "placement" -> <<"p","l","a","c","e","m","e","n","t">>
      [] a = "instance_type" -> <<"i","n","s","t","a","n","c","e","_","t","y","p","e">>
      [] a = "key_name" -> <<"k","e","y","_","n","a","m","e">>

\* instance_vars: strings stripped, None as '', tags as ec2_tag_<k>, groups as
\* two comma-joined lists
instance_vars(instance) ==
    LET present == {a \in StringAttributes : a = "placement" => instance.has_placement}
        strs == [k \in {to_safe(S_ec2 \o AttrName(a)) : a \in present} |->
                   LET a == CHOOSE a \in present : to_safe(S_ec2 \o AttrName(a)) = k
                   IN  IF instance[a] = None THEN <<>> ELSE Strip(instance[a])]
        tagk(i) == to_safe(S_ec2 \o S_tag \o instance.tags[i][1])
        tags == [k \in {tagk(i) : i \in 1..Len(instance.tags)} |->
                   instance.tags[CHOOSE i \in 1..Len(instance.tags) :
                                   /\ tagk(i) = k
                                   /\ \A j \in 1..Len(instance.tags) : tagk(j) = k => j <= i][2]]
        grps == IF instance.has_groups
                  THEN (S_ec2 \o S_security_group \o <<"i","d","s">> :>
                          Join([i \in 1..Len(instance.groups) |-> instance.groups[i].id]))
                       @@ (S_ec2 \o S_security_group \o <<"n","a","m","e","s">> :>
                          Join([i \in 1..Len(instance.groups) |-> instance.groups[i].name]))
                  ELSE <<>>
    IN  grps @@ tags @@ strs

(***************************************************************************)
(* The state.                                                              *)
(***************************************************************************)
VARIABLES
    args,             \* self.args: host, refresh_cache, tags_only
    route53_enabled,  \* self.route53_enabled
    inventory,        \* self.inventory
    index,            \* self.index
    route53_records,  \* self.route53_records
    cache_file,       \* the file at cache_path_cache
    tags_file,        \* the file at cache_path_tags
    index_file,       \* the file at cache_path_index
    now,              \* time()
    pc,               \* where the script is
    attempt,          \* iterations of the RETRIES loop begun
    caller,           \* who called do_api_calls_update_cache: "init" or "host"
    region_ix,        \* position of  for region in self.regions
    pending,          \* the records of the adapter's answer not yet added
    handed,           \* records the adapter handed over so far
    output,           \* what print(data_to_print) printed
    refreshes,        \* history: calls of do_api_calls_update_cache by this Ec2Inventory
    fetches,          \* history: calls of get_instance by this Ec2Inventory
    last,             \* history: what the latest step of the refresh in progress did
    log,              \* history: the records this Ec2Inventory added, in order
    word,             \* to_safe on its own: the word handed in
    results,          \* to_safe on its own: what each call returned, fed to the next
    my_dict,          \* push on its own: the dict
    start,            \* push on its own: the dict before the first call
    pushed,           \* push on its own: the elements pushed, in call order
    reader            \* a second invocation of the script, run beside the first

vars == <<args, route53_enabled, inventory, index, route53_records, cache_file,
          tags_file, index_file, now, pc, attempt, caller, region_ix, pending,
          handed, output, refreshes, fetches, last, log,
          word, results, my_dict, start, pushed, reader>>

\* the functions checked on their own: untouched while the script runs
pure == <<word, results, my_dict, start, pushed>>

\* nothing handed to to_safe or push on its own
PureAtRest ==
    /\ word = <<>>
    /\ results = <<>>
    /\ my_dict = <<>>
    /\ start = <<>>
    /\ pushed = <<>>

\* nothing printed
NoOutput == [fmt |-> "none", val |-> <<>>]

\* no second invocation
NoReader == [pc |-> "absent", host |-> FALSE, tags_only |-> FALSE, at |-> "absent",
             seen |-> NoOutput]

\* the cache an earlier full-mode or tags-only invocation left: C_plain found in R1
PriorAdd == add_instance(<<>>, EmptyDict, C_plain, R1, FALSE, <<>>)

PriorCaches ==
    { [cache |-> NoFile, tags |-> NoFile, index |-> NoFile],
      [cache |-> WrittenFile(json_format_dict(PriorAdd.inventory, FALSE), 0),
       tags |-> NoFile,
       index |-> WrittenFile(json_format_dict(PriorAdd.index.v, FALSE), 0)],
      [cache |-> NoFile,
       tags |-> WrittenFile(json_format_dict(PriorAdd.inventory, TRUE), 0),
       index |-> WrittenFile(json_format_dict(PriorAdd.index.v, TRUE), 0)] }

\* --host is absent, or names an address
Hosts == {None, A2}

Init ==
    /\ args \in [host : Hosts, refresh_cache : BOOLEAN, tags_only : BOOLEAN]
    /\ route53_enabled \in BOOLEAN
    /\ inventory = <<>>
    /\ index = EmptyDict
    /\ route53_records = <<>>
    /\ \E prior \in PriorCaches :
         /\ cache_file = prior.cache
         /\ tags_file = prior.tags
         /\ index_file = prior.index
    /\ now = 0
    /\ pc = "loop"
    /\ attempt = 0
    /\ caller = "init"
    /\ region_ix = 1
    /\ pending = <<>>
    /\ handed = 0
    /\ output = NoOutput
    /\ refreshes = 0
    /\ fetches = 0
    /\ last = "idle"
    /\ log = <<>>
    /\ PureAtRest
    /\ reader = NoReader

(***************************************************************************)
(* The environment, before the script starts: time passes since the cache  *)
(* was written, and the index file is removed.                             *)
(***************************************************************************)
Tick ==
    /\ UNCHANGED <<pure, reader>>
    /\ pc = "loop"
    /\ attempt = 0
    /\ cache_file.exists \/ tags_file.exists
    /\ now < MaxTime
    /\ now' = now + 1
    /\ UNCHANGED <<args, route53_enabled, inventory, index, route53_records, cache_file,
                   tags_file, index_file, pc, attempt, caller, region_ix, pending,
                   handed, output, refreshes, fetches, last, log>>

DeleteIndexFile ==
    /\ UNCHANGED <<pure, reader>>
    /\ pc = "loop"
    /\ attempt = 0
    /\ index_file.exists
    /\ index_file' = NoFile
    /\ UNCHANGED <<args, route53_enabled, inventory, index, route53_records, cache_file,
                   tags_file, now, pc, attempt, caller, region_ix, pending,
                   handed, output, refreshes, fetches, last, log>>

(***************************************************************************)
(* Control: where the script goes next.                                    *)
(***************************************************************************)
\* the first step of do_api_calls_update_cache
RefreshEntry == IF route53_enabled THEN "route53" ELSE "ec2"

\* an exception leaves Ec2Inventory(): the RETRIES loop prints the traceback
\* and goes round again
Raised == "loop"

\* sys.exit(1): SystemExit is no Exception, the loop does not catch it
Exited == "exited"

\* the slip of writing the cache inside the loop over the regions
AfterRegion_write_each(ix) == "write_payload"

\* after a region's database instances: the next region, or write_to_cache
AfterRegion(ix) == IF ix < Len(regions) THEN "ec2" ELSE "write_payload"

(***************************************************************************)
(* Ec2Inventory.__init__, up to the decision to refresh.                   *)
(***************************************************************************)
Construct ==
    /\ UNCHANGED <<pure, reader>>
    /\ pc = "loop"
    /\ attempt < RETRIES
    /\ attempt' = attempt + 1
    /\ inventory' = <<>>
    /\ index' = EmptyDict
    /\ route53_records' = <<>>
    /\ fetches' = 0
    /\ last' = "idle"
    /\ log' = <<>>
    /\ pending' = <<>>
    /\ region_ix' = 1
    /\ caller' = "init"
    /\ IF args.refresh_cache
         THEN pc' = RefreshEntry /\ refreshes' = 1
         ELSE IF ~is_cache_valid(args.tags_only, cache_file, tags_file, index_file, now)
                THEN pc' = RefreshEntry /\ refreshes' = 1
                ELSE pc' = "print" /\ refreshes' = 0
    /\ UNCHANGED <<args, route53_enabled, cache_file, tags_file, index_file, now,
                   handed, output>>

(***************************************************************************)
(* do_api_calls_update_cache, step by step.                                *)
(***************************************************************************)
GetRoute53Records ==
    /\ UNCHANGED <<pure, reader>>
    /\ pc = "route53"
    /\ \E rrsets \in RRSets : route53_records' = route53_map(<<>>, rrsets)
    /\ pc' = "ec2"
    /\ UNCHANGED <<args, route53_enabled, inventory, index, cache_file, tags_file,
                   index_file, now, attempt, caller, region_ix, pending, handed,
                   output, refreshes, fetches, last, log>>

\* get_instances_by_region, up to the loop over the instances
GetInstancesByRegion ==
    /\ UNCHANGED <<pure, reader>>
    /\ pc = "ec2"
    /\ \/ \* connect_to_region returned None: print, sys.exit(1)
          /\ pc' = Exited
          /\ last' = "ec2_conn_none"
          /\ UNCHANGED <<pending, handed>>
       \/ \* a BotoServerError: print, sys.exit(1)
          /\ pc' = Exited
          /\ last' = "ec2_conn_error"
          /\ UNCHANGED <<pending, handed>>
       \/ \E instances \in Answers(Instances, handed) :
            /\ pending' = instances
            /\ handed' = handed + Len(instances)
            /\ pc' = IF instances = <<>> THEN "rds" ELSE "add_instance"
            /\ last' = "answer"
    /\ UNCHANGED <<args, route53_enabled, inventory, index, route53_records, cache_file,
                   tags_file, index_file, now, attempt, caller, region_ix, output,
                   refreshes, fetches, log>>

\* one turn of  for instance in instances: self.add_instance(instance, region)
AddInstance ==
    /\ UNCHANGED <<pure, reader>>
    /\ pc = "add_instance"
    /\ LET instance == Head(pending)
           region == regions[region_ix]
           found == IF route53_enabled
                      THEN get_instance_route53_names(instance, route53_records)
                      ELSE {}
       IN  \E names \in Orders(found) :
             LET r == add_instance(inventory, index, instance, region, route53_enabled, names)
             IN  /\ inventory' = r.inventory
                 /\ index' = r.index
                 /\ last' = r.st
                 /\ log' = IF r.st = "ok"
                             THEN Append(log, [kind |-> "ec2", instance |-> instance,
                                               region |-> region, names |-> names,
                                               refresh |-> refreshes])
                             ELSE log
                 /\ pending' = IF r.st \in {"ok", "skip_state", "skip_dest"} THEN Tail(pending) ELSE <<>>
                 /\ pc' = CASE r.st = "exit" -> Exited
                            [] r.st \in {"raise", "attr_error"} -> Raised
                            [] OTHER -> IF Tail(pending) = <<>> THEN "rds" ELSE "add_instance"
    /\ UNCHANGED <<args, route53_enabled, route53_records, cache_file, tags_file,
                   index_file, now, attempt, caller, region_ix, handed, output,
                   refreshes, fetches>>

\* get_rds_instances_by_region, up to the loop over the instances
GetRdsInstancesByRegion ==
    /\ UNCHANGED <<pure, reader>>
    /\ pc = "rds"
    /\ \/ \* connect_to_region returned None:  if conn:  skips the region
          /\ pc' = AfterRegion(region_ix)
          /\ region_ix' = IF region_ix < Len(regions) THEN region_ix + 1 ELSE region_ix
          /\ last' = "rds_conn_none"
          /\ UNCHANGED <<pending, handed>>
       \/ \* a BotoServerError: print, sys.exit(1)
          /\ pc' = Exited
          /\ last' = "rds_conn_error"
          /\ UNCHANGED <<pending, handed, region_ix>>
       \/ \E instances \in Answers(DBInstances, handed) :
            /\ pending' = instances
            /\ handed' = handed + Len(instances)
            /\ IF instances = <<>>
                 THEN /\ pc' = AfterRegion(region_ix)
                      /\ region_ix' = IF region_ix < Len(regions) THEN region_ix + 1
                                      ELSE region_ix
                 ELSE /\ pc' = "add_rds_instance"
                      /\ UNCHANGED region_ix
            /\ last' = "answer"
    /\ UNCHANGED <<args, route53_enabled, inventory, index, route53_records, cache_file,
                   tags_file, index_file, now, attempt, caller, output,
                   refreshes, fetches, log>>

\* one turn of  for instance in instances: self.add_rds_instance(instance, region)
AddRdsInstance ==
    /\ UNCHANGED <<pure, reader>>
    /\ pc = "add_rds_instance"
    /\ LET instance == Head(pending)
           region == regions[region_ix]
           r == add_rds_instance(inventory, index, instance, region)
           finished == r.st \in {"ok", "skip_state", "skip_dest"} /\ Tail(pending) = <<>>
       IN  /\ inventory' = r.inventory
           /\ index' = r.index
           /\ last' = r.st
           /\ log' = IF r.st = "ok"
                       THEN Append(log, [kind |-> "rds", instance |-> instance,
                                         region |-> region, names |-> <<>>,
                                         refresh |-> refreshes])
                       ELSE log
           /\ pending' = IF r.st \in {"ok", "skip_state", "skip_dest"} THEN Tail(pending) ELSE <<>>
           /\ pc' = CASE r.st = "exit" -> Exited
                      [] r.st \in {"raise", "attr_error"} -> Raised
                      [] OTHER -> IF finished THEN AfterRegion(region_ix) ELSE "add_rds_instance"
           /\ region_ix' = IF finished /\ region_ix < Len(regions) THEN region_ix + 1
                           ELSE region_ix
    /\ UNCHANGED <<args, route53_enabled, route53_records, cache_file, tags_file,
                   index_file, now, attempt, caller, handed, output,
                   refreshes, fetches>>

\* write_to_cache(self.inventory, self.cache_path_tags or self.cache_path_cache)
WritePayload ==
    /\ UNCHANGED <<pure, reader>>
    /\ pc = "write_payload"
    /\ LET written == WrittenFile(json_format_dict(inventory, args.tags_only), now)
       IN  IF args.tags_only
             THEN tags_file' = written /\ UNCHANGED cache_file
             ELSE cache_file' = written /\ UNCHANGED tags_file
    /\ pc' = "write_index"
    /\ UNCHANGED <<args, route53_enabled, inventory, index, route53_records,
                   index_file, now, attempt, caller, region_ix, pending, handed,
                   output, refreshes, fetches, last, log>>

\* write_to_cache(self.index, self.cache_path_index), and the return to the caller
WriteIndex ==
    /\ UNCHANGED <<pure, reader>>
    /\ pc = "write_index"
    /\ last' = "idle"
    /\ IF index.t = "dict"
         THEN /\ index_file' = WrittenFile(json_format_dict(index.v, args.tags_only), now)
              /\ pc' = IF caller = "init" THEN "print" ELSE "host_retry"
         ELSE IF args.tags_only
                THEN \* data.keys() of a list: AttributeError
                     /\ pc' = Raised
                     /\ UNCHANGED index_file
                ELSE \* json.dumps of the list
                     /\ index_file' = WrittenFile([fmt |-> "array", val |-> index.v], now)
                     /\ pc' = IF caller = "init" THEN "print" ELSE "host_retry"
    /\ UNCHANGED <<args, route53_enabled, inventory, index, route53_records, cache_file,
                   tags_file, now, attempt, caller, region_ix, pending, handed,
                   output, refreshes, fetches, log>>

(***************************************************************************)
(* The data to print.                                                      *)
(***************************************************************************)
\* elif self.args.list: the cache file verbatim, or the inventory just built
PrintList ==
    /\ UNCHANGED <<pure, reader>>
    /\ pc = "print"
    /\ ~Truthy(args.host)
    /\ IF Cardinality(DOMAIN inventory) = 0
         THEN LET cache == PayloadFile(args.tags_only, cache_file, tags_file)
              IN  IF cache.exists
                    THEN output' = cache.text /\ pc' = "done"
                    ELSE \* open() of a missing file: IOError
                         pc' = Raised /\ UNCHANGED output
         ELSE /\ output' = json_format_dict(inventory, args.tags_only)
              /\ pc' = "done"
    /\ UNCHANGED <<args, route53_enabled, inventory, index, route53_records, cache_file,
                   tags_file, index_file, now, attempt, caller, region_ix, pending,
                   handed, refreshes, fetches, last, log>>

\* get_host_info, up to the first lookup of the host in the index
GetHostInfo ==
    /\ UNCHANGED <<pure, reader>>
    /\ pc = "print"
    /\ Truthy(args.host)
    /\ IF PyLen(index) = 0 /\ ~index_file.exists
         THEN \* load_index_from_cache: open() of a missing file: IOError
              /\ pc' = Raised
              /\ UNCHANGED <<index, caller, region_ix, refreshes, last>>
         ELSE LET loaded == IF PyLen(index) = 0 THEN json_loads(index_file.text) ELSE index
              IN  /\ index' = loaded
                  /\ IF ~PyIn(args.host, loaded)
                       THEN \* try updating the cache
                            /\ pc' = RefreshEntry
                            /\ caller' = "host"
                            /\ region_ix' = 1
                            /\ refreshes' = refreshes + 1
                            /\ last' = "idle"
                       ELSE /\ pc' = IF loaded.t = "dict" THEN "get_instance"
                                     ELSE Raised  \* a list indexed by a string: TypeError
                            /\ UNCHANGED <<caller, region_ix, refreshes, last>>
    /\ UNCHANGED <<args, route53_enabled, inventory, route53_records, cache_file,
                   tags_file, index_file, now, attempt, pending, handed, output,
                   fetches, log>>

\* get_host_info after its refresh: the second lookup
HostRetry ==
    /\ UNCHANGED <<pure, reader>>
    /\ pc = "host_retry"
    /\ IF ~PyIn(args.host, index)
         THEN \* host might not exist anymore
              /\ output' = json_format_dict(<<>>, args.tags_only)
              /\ pc' = "done"
         ELSE /\ pc' = IF index.t = "dict" THEN "get_instance" ELSE Raised
              /\ UNCHANGED output
    /\ UNCHANGED <<args, route53_enabled, inventory, index, route53_records, cache_file,
                   tags_file, index_file, now, attempt, caller, region_ix, pending,
                   handed, refreshes, fetches, last, log>>

\* get_instance and the flattening of what it returns
GetInstance ==
    /\ UNCHANGED <<pure, reader>>
    /\ pc = "get_instance"
    /\ fetches' = fetches + 1
    /\ LET region == index.v[args.host][1]
           instance_id == index.v[args.host][2]
       IN  \/ \* connect_to_region returned None: print, sys.exit(1)
              /\ pc' = Exited
              /\ last' = "get_instance_conn_none"
              /\ UNCHANGED output
           \/ \* a BotoServerError, uncaught here; or no reservation, and vars(None)
              /\ pc' = Raised
              /\ last' = "get_instance_error"
              /\ UNCHANGED output
           \/ \E instance \in Instances :
                /\ instance.id = instance_id
                /\ output' = json_format_dict(instance_vars(instance), args.tags_only)
                /\ pc' = "done"
                /\ last' = "get_instance"
    /\ UNCHANGED <<args, route53_enabled, inventory, index, route53_records, cache_file,
                   tags_file, index_file, now, attempt, caller, region_ix, pending,
                   handed, refreshes, log>>

Next ==
    \/ Tick
    \/ DeleteIndexFile
    \/ Construct
    \/ GetRoute53Records
    \/ GetInstancesByRegion
    \/ AddInstance
    \/ GetRdsInstancesByRegion
    \/ AddRdsInstance
    \/ WritePayload
    \/ WriteIndex
    \/ PrintList
    \/ GetHostInfo
    \/ HostRetry
    \/ GetInstance

Spec == Init /\ [][Next]_vars

(***************************************************************************)
(* to_safe and push on their own: the script at rest, the function applied *)
(* to inputs drawn from bounded sets.                                      *)
(***************************************************************************)
\* the script's variables as __init__ finds them, nothing cached
AtRest ==
    /\ args = [host |-> None, refresh_cache |-> FALSE, tags_only |-> FALSE]
    /\ route53_enabled = FALSE
    /\ inventory = <<>>
    /\ index = EmptyDict
    /\ route53_records = <<>>
    /\ cache_file = NoFile
    /\ tags_file = NoFile
    /\ index_file = NoFile
    /\ now = 0
    /\ pc = "loop"
    /\ attempt = 0
    /\ caller = "init"
    /\ region_ix = 1
    /\ pending = <<>>
    /\ handed = 0
    /\ output = NoOutput
    /\ refreshes = 0
    /\ fetches = 0
    /\ last = "idle"
    /\ log = <<>>

program == <<args, route53_enabled, inventory, index, route53_records, cache_file,
             tags_file, index_file, now, pc, attempt, caller, region_ix, pending,
             handed, output, refreshes, fetches, last, log>>

\* characters of every kind the pattern [^A-Za-z0-9\-] tells apart
Alphabet == {"a", "Z", "0", "-", "_", "."}

Words == SeqsUpTo(Alphabet, MaxLen)

InitToSafe ==
    /\ AtRest
    /\ word \in Words
    /\ results = <<>>
    /\ my_dict = <<>>
    /\ start = <<>>
    /\ pushed = <<>>
    /\ reader = NoReader

\* to_safe(word), then to_safe of what it returned
ApplyToSafe ==
    /\ Len(results) < 2
    /\ results' = Append(results, to_safe(IF results = <<>> THEN word ELSE results[Len(results)]))
    /\ UNCHANGED <<program, word, my_dict, start, pushed, reader>>

NextToSafe == ApplyToSafe

SpecToSafe == InitToSafe /\ [][NextToSafe]_vars

\* the key pushed on, absent from every dict the calls start with
PushKey == R2

\* the elements pushed
Elements == {A1, A2, E1}

\* the dicts the calls start with
PriorDicts == { <<>>, (R1 :> <<A1>>), (R1 :> <<A1>> @@ Z1 :> <<A2, A1>>) }

InitPush ==
    /\ AtRest
    /\ word = <<>>
    /\ results = <<>>
    /\ my_dict \in PriorDicts
    /\ start = my_dict
    /\ pushed = <<>>
    /\ reader = NoReader

\* self.push(my_dict, key, element)
PushOnKey ==
    /\ Len(pushed) < MaxPushes
    /\ \E element \in Elements :
         /\ my_dict' = push(my_dict, PushKey, element)
         /\ pushed' = Append(pushed, element)
    /\ UNCHANGED <<program, word, results, start, reader>>

NextPush == PushOnKey

SpecPush == InitPush /\ [][NextPush]_vars

(***************************************************************************)
(* The refresh beside a second invocation of the script.  write_to_cache   *)
(* is taken step by step: open(filename, 'w') truncates the file, close()  *)
(* leaves the whole text in it.  The second invocation runs without        *)
(* --refresh-cache, in list mode or in host mode; it is followed as far as *)
(* its reads of the cache files.                                           *)
(***************************************************************************)
\* the first invocation's variables but the files and its position
script == <<args, route53_enabled, inventory, index, route53_records, now, attempt,
            caller, region_ix, pending, handed, output, refreshes, fetches, log>>

InitRace ==
    /\ args \in [host : {None}, refresh_cache : BOOLEAN, tags_only : BOOLEAN]
    /\ route53_enabled = FALSE
    /\ inventory = <<>>
    /\ index = EmptyDict
    /\ route53_records = <<>>
    /\ \E prior \in PriorCaches :
         /\ cache_file = prior.cache
         /\ tags_file = prior.tags
         /\ index_file = prior.index
    /\ now = 0
    /\ pc = "loop"
    /\ attempt = 0
    /\ caller = "init"
    /\ region_ix = 1
    /\ pending = <<>>
    /\ handed = 0
    /\ output = NoOutput
    /\ refreshes = 0
    /\ fetches = 0
    /\ last = "idle"
    /\ log = <<>>
    /\ PureAtRest
    /\ \E host \in BOOLEAN :
         reader = [pc |-> "start", host |-> host, tags_only |-> args.tags_only,
                   at |-> "absent", seen |-> NoOutput]

\* the slip of a payload write that takes the index file along in the same step
OpenPayload_with_index ==
    /\ UNCHANGED <<pure, reader>>
    /\ pc = "write_payload"
    /\ IF args.tags_only
         THEN tags_file' = PartFile(now) /\ UNCHANGED cache_file
         ELSE cache_file' = PartFile(now) /\ UNCHANGED tags_file
    /\ index_file' = PartFile(now)
    /\ pc' = "close_payload"
    /\ UNCHANGED <<script, last>>

\* write_to_cache(self.inventory, ...): json_format_dict, then open(filename, 'w')
OpenPayload ==
    /\ UNCHANGED <<pure, reader>>
    /\ pc = "write_payload"
    /\ IF args.tags_only
         THEN tags_file' = PartFile(now) /\ UNCHANGED cache_file
         ELSE cache_file' = PartFile(now) /\ UNCHANGED tags_file
    /\ pc' = "close_payload"
    /\ UNCHANGED <<script, index_file, last>>

\* cache.write(json_data); cache.close()
ClosePayload ==
    /\ UNCHANGED <<pure, reader>>
    /\ pc = "close_payload"
    /\ LET written == WrittenFile(json_format_dict(inventory, args.tags_only), now)
       IN  IF args.tags_only
             THEN tags_file' = written /\ UNCHANGED cache_file
             ELSE cache_file' = written /\ UNCHANGED tags_file
    /\ pc' = "write_index"
    /\ UNCHANGED <<script, index_file, last>>

\* write_to_cache(self.index, self.cache_path_index): json_format_dict, then open
OpenIndex ==
    /\ UNCHANGED <<pure, reader>>
    /\ pc = "write_index"
    /\ IF index.t = "dict" \/ ~args.tags_only
         THEN index_file' = PartFile(now) /\ pc' = "close_index"
         ELSE \* data.keys() of a list: AttributeError
              pc' = Raised /\ UNCHANGED index_file
    /\ UNCHANGED <<script, cache_file, tags_file, last>>

\* cache.write(json_data); cache.close(), and the return to the caller
CloseIndex ==
    /\ UNCHANGED <<pure, reader>>
    /\ pc = "close_index"
    /\ last' = "idle"
    /\ index_file' = WrittenFile(IF index.t = "dict"
                                   THEN json_format_dict(index.v, args.tags_only)
                                   ELSE [fmt |-> "array", val |-> index.v], now)
    /\ pc' = IF caller = "init" THEN "print" ELSE "host_retry"
    /\ UNCHANGED <<script, cache_file, tags_file>>

\* the second invocation's __init__: elif not self.is_cache_valid(); the field
\* at is history: where the first invocation was when the test ran
ReaderConstruct ==
    /\ reader.pc = "start"
    /\ reader' = [reader EXCEPT
                     !.pc = IF is_cache_valid(reader.tags_only, cache_file, tags_file,
                                              index_file, now)
                              THEN "valid" ELSE "refresh",
                     !.at = pc]
    /\ UNCHANGED <<program, pure>>

\* the second invocation's elif self.args.list: get_inventory_from_cache
ReaderGetInventoryFromCache ==
    /\ reader.pc = "valid"
    /\ ~reader.host
    /\ LET cache == PayloadFile(reader.tags_only, cache_file, tags_file)
       IN  reader' = IF cache.exists
                       THEN [reader EXCEPT !.pc = "printed", !.seen = cache.text]
                       ELSE [reader EXCEPT !.pc = "raised"]
    /\ UNCHANGED <<program, pure>>

\* the second invocation's get_host_info: load_index_from_cache
ReaderLoadIndex ==
    /\ reader.pc = "valid"
    /\ reader.host
    /\ reader' = IF index_file.exists /\ index_file.text.fmt # "partial"
                   THEN [reader EXCEPT !.pc = "loaded", !.seen = index_file.text]
                   ELSE \* open() of a missing file, json.loads of a cut text
                        [reader EXCEPT !.pc = "raised"]
    /\ UNCHANGED <<program, pure>>

NextRace ==
    \/ Tick
    \/ DeleteIndexFile
    \/ Construct
    \/ GetInstancesByRegion
    \/ AddInstance
    \/ GetRdsInstancesByRegion
    \/ AddRdsInstance
    \/ OpenPayload
    \/ ClosePayload
    \/ OpenIndex
    \/ CloseIndex
    \/ PrintList
    \/ ReaderConstruct
    \/ ReaderGetInventoryFromCache
    \/ ReaderLoadIndex

SpecRace == InitRace /\ [][NextRace]_vars


(***************************************************************************)
(* What the histories say.                                                 *)
(***************************************************************************)
\* the endpoint a logged record was added under
EntryDest(e) ==
    IF e.kind = "ec2"
      THEN (IF e.instance.subnet_id \in {None, <<>>} THEN e.instance.public_dns_name
            ELSE e.instance.ip_address)
      ELSE e.instance.endpoint[1]

\* the inventory and index that adding the logged records, and nothing else, builds
RECURSIVE Replay(_, _, _)
Replay(entries, inv, idx) ==
    IF entries = <<>> THEN [inventory |-> inv, index |-> idx]
    ELSE LET e == Head(entries)
             r == IF e.kind = "ec2"
                    THEN add_instance(inv, idx, e.instance, e.region, route53_enabled, e.names)
                    ELSE add_rds_instance(inv, idx, e.instance, e.region)
         IN  Replay(Tail(entries), r.inventory, r.index)

\* the records added by the refresh that ran last
IsOfThisRefresh(e) == e.refresh = refreshes
ThisRefresh == SelectSeq(log, IsOfThisRefresh)

\* a call of do_api_calls_update_cache has just returned
RefreshDone == pc = "host_retry" \/ (pc = "print" /\ refreshes > 0)

\* two JSON texts are the same text
SameText(a, b) == a.fmt = b.fmt /\ a.val = b.val

\* the keys of the in-memory index
IndexKeys == IF index.t = "dict" THEN DOMAIN index.v ELSE index.v

\* the requested host is not in the in-memory index
HostAbsent == args.host \notin IndexKeys

\* the payload file of the mode
Payload == IF args.tags_only THEN tags_file ELSE cache_file

(***************************************************************************)
(* C1.  After any do_api_calls_update_cache completes, the inventory and   *)
(* the index, and the files written from them, hold exactly what the       *)
(* records of that refresh give: nothing loaded from the index file and    *)
(* nothing of an earlier refresh of the run is left, and no endpoint is in *)
(* a group twice because the refresh ran twice.                            *)
(* The code never empties self.inventory and self.index before a refresh, *)
(* so this fails.                                                          *)
(***************************************************************************)
C1_RebuiltWholesale ==
    RefreshDone =>
        LET rebuilt == Replay(ThisRefresh, <<>>, EmptyDict)
        IN  /\ inventory = rebuilt.inventory
            /\ IndexKeys = DOMAIN rebuilt.index.v
            /\ index.t = "dict" => index.v = rebuilt.index.v
            /\ SameText(Payload.text, json_format_dict(rebuilt.inventory, args.tags_only))
            /\ SameText(index_file.text, json_format_dict(rebuilt.index.v, args.tags_only))

\* the refresh of a missed host lookup is over, after the one __init__ invoked
C1_Reached == pc = "host_retry" /\ refreshes = 2 /\ log # <<>>

(***************************************************************************)
(* C2.  As claimed: in one run of a host query, whatever the cache state,  *)
(* a host absent from the index makes the run invoke the refresh exactly   *)
(* once, and a host still absent after it gives the serialized empty       *)
(* object, with no single-instance fetch.                                  *)
(***************************************************************************)
C2_ExactlyOneRefreshInRun ==
    /\ caller = "host" => refreshes = 1
    /\ (pc = "done" /\ caller = "host" /\ HostAbsent) =>
          /\ output.fmt = "object"
          /\ DOMAIN output.val = {}
          /\ fetches = 0

\* what json_format_dict makes of the empty dict {}
EmptyResult ==
    IF args.tags_only THEN [fmt |-> "array", val |-> {}]
    ELSE [fmt |-> "object", val |-> <<>>]

(***************************************************************************)
(* C2, amended.  get_host_info invokes the refresh exactly once when the   *)
(* host is absent from the index at its first lookup, and only then: that  *)
(* is the run's only refresh when __init__ found the cache valid and no    *)
(* refresh was forced, and its second one otherwise.  After the refresh    *)
(* the lookup is retried once and a host still absent gives at once        *)
(* json_format_dict({}): the empty object, or the empty array in tags-only *)
(* mode, with no error and no single-instance fetch.                       *)
(***************************************************************************)
C2_HostLookupRefreshesOnce ==
    /\ [][(pc = "loop" /\ pc' # "loop") =>
            refreshes' = IF \/ args.refresh_cache
                            \/ ~(/\ Payload.exists
                                 /\ now < Payload.mtime + CacheMaxAge
                                 /\ index_file.exists)
                           THEN 1 ELSE 0]_vars
    /\ [][(pc = "print" /\ args.host # None /\ pc' # "loop") =>
            IF args.host \notin (IF index'.t = "dict" THEN DOMAIN index'.v ELSE index'.v)
              THEN caller' = "host" /\ refreshes' = refreshes + 1
              ELSE caller' = "init" /\ refreshes' = refreshes]_vars
    /\ [][(pc # "loop" /\ pc # "print") => refreshes' = refreshes]_vars
    /\ [][(pc = "host_retry" /\ HostAbsent) =>
            /\ pc' = "done"
            /\ output' = EmptyResult
            /\ fetches' = 0]_vars
    /\ [](caller = "host" => refreshes \in {1, 2})

\* a forced refresh, then the refresh of the missed lookup, and the empty result
C2_Reached ==
    /\ pc = "done"
    /\ caller = "host"
    /\ args.refresh_cache
    /\ refreshes = 2
    /\ HostAbsent
    /\ output = EmptyResult
    /\ fetches = 0

(***************************************************************************)
(* C3.  A rejected connection attempt, for either resource kind (the       *)
(* adapter returns no connection, or a server error), ends the run: the    *)
(* refresh does not go on to later regions or to writing the cache.        *)
(* get_rds_instances_by_region skips a region whose connection is None,    *)
(* so this fails.                                                          *)
(***************************************************************************)
C3_RejectedConnectionAborts ==
    last \in {"ec2_conn_none", "ec2_conn_error", "rds_conn_none", "rds_conn_error"}
        => pc = "exited"

\* the payload is written by a refresh that skipped the last region's databases
C3_Reached == pc = "write_index" /\ last = "rds_conn_none"

(***************************************************************************)
(* C4.  is_cache_valid is true exactly when the payload file of the mode   *)
(* exists, now < mtime(payload) + cache_max_age, and the index file        *)
(* exists; so a fresh payload whose index file is gone is not valid.       *)
(***************************************************************************)
C4_CacheValidIff ==
    is_cache_valid(args.tags_only, cache_file, tags_file, index_file, now)
        <=> (/\ (IF args.tags_only THEN tags_file.exists ELSE cache_file.exists)
             /\ now < (IF args.tags_only THEN tags_file.mtime ELSE cache_file.mtime)
                        + CacheMaxAge
             /\ index_file.exists)

\* __init__ refreshed, unforced, although the payload was fresh: the index file was gone
C4_Reached ==
    /\ ~args.refresh_cache
    /\ attempt = 1
    /\ pc \in {"ec2", "route53"}
    /\ caller = "init"
    /\ refreshes = 1
    /\ region_ix = 1
    /\ Payload.exists
    /\ now < Payload.mtime + CacheMaxAge
    /\ ~index_file.exists

(***************************************************************************)
(* C5.  add_instance of a record whose state is not 'running', and         *)
(* add_rds_instance of a record whose status is not 'available', leave     *)
(* the inventory and the index as they were, whatever they held.           *)
(***************************************************************************)
C5_NotRunningUnchanged ==
    [][(\/ pc = "add_instance" /\ Head(pending).state # S_running
        \/ pc = "add_rds_instance" /\ Head(pending).status # S_available)
       => (inventory' = inventory /\ index' = index)]_vars

\* a record that is not running was passed in when the inventory held groups already
C5_Reached == last = "skip_state" /\ log # <<>> /\ inventory = Replay(log, <<>>, EmptyDict).inventory

(***************************************************************************)
(* C6.  add_instance of a running record whose resolved destination (the   *)
(* VPC-scoped attribute when subnet_id is non-empty, the public one        *)
(* otherwise) is empty or None, and add_rds_instance of an available       *)
(* record whose endpoint[0] is empty or None, leave the inventory and the  *)
(* index as they were: the record is in no group.                          *)
(***************************************************************************)
C6_NoDestinationUnchanged ==
    [][(\/ /\ pc = "add_instance"
           /\ Head(pending).state = S_running
           /\ (IF Head(pending).subnet_id \in {None, <<>>}
                 THEN Head(pending).public_dns_name
                 ELSE Head(pending).ip_address) \in {None, <<>>}
        \/ /\ pc = "add_rds_instance"
           /\ Head(pending).status = S_available
           /\ Head(pending).endpoint[1] \in {None, <<>>})
       => (inventory' = inventory /\ index' = index)]_vars

\* a running record without destination was passed in when the inventory held groups
C6_Reached == last = "skip_dest" /\ log # <<>> /\ inventory = Replay(log, <<>>, EmptyDict).inventory

(***************************************************************************)
(* Tags in the log.                                                        *)
(***************************************************************************)
\* the tags of a logged record: database records carry none
EntryTags(e) == IF e.kind = "ec2" THEN e.instance.tags ELSE <<>>

\* the group name of a tag: 'tag_' + k + '=' + v, every character that is no
\* letter, digit or hyphen replaced by an underscore
TagGroupName(t) ==
    LET raw == <<"t","a","g","_">> \o t[1] \o <<"=">> \o t[2]
    IN  [i \in 1..Len(raw) |->
           IF raw[i] \in Lower \cup Upper \cup Digit \cup {"-"} THEN raw[i] ELSE "_"]

\* the logged record has exactly this tag key and value
HasTag(e, t) == \E i \in 1..Len(EntryTags(e)) : EntryTags(e)[i] = t

\* the logged record has a tag of this group name
HasTagNamed(e, name) ==
    \E i \in 1..Len(EntryTags(e)) : TagGroupName(EntryTags(e)[i]) = name

\* the tags the run has seen
SeenTags == UNION {{EntryTags(log[i])[j] : j \in 1..Len(EntryTags(log[i]))} : i \in 1..Len(log)}

\* the endpoints of the logged records, once for each tag of the group name, in order
RECURSIVE TagEndpoints(_, _)
TagEndpoints(entries, name) ==
    IF entries = <<>> THEN <<>>
    ELSE LET e == Head(entries)
             hits == SelectSeq(EntryTags(e), LAMBDA t : TagGroupName(t) = name)
         IN  [i \in 1..Len(hits) |-> EntryDest(e)] \o TagEndpoints(Tail(entries), name)

(***************************************************************************)
(* C7.  As claimed: for every tag key and value the run has seen, the      *)
(* group first_in_tag_<tag> holds exactly the endpoint of the first record *)
(* added with that exact key and value.                                    *)
(***************************************************************************)
C7_FirstOfExactTag ==
    \A t \in SeenTags :
        LET first == CHOOSE i \in 1..Len(log) :
                        HasTag(log[i], t) /\ \A j \in 1..(i - 1) : ~HasTag(log[j], t)
            key == S_first_in \o TagGroupName(t)
        IN  key \in DOMAIN inventory /\ inventory[key] = <<EntryDest(log[first])>>

(***************************************************************************)
(* C7, amended.  The tag groups are named by the sanitized tag, and two    *)
(* tags can share a name (env=p.1 and env=p_1): first_in_tag_<name> holds  *)
(* exactly the endpoint of the first record added, in this run, with a tag *)
(* of that sanitized name, never overwritten or extended, also across the  *)
(* refreshes of the run; tag_<name> holds the endpoint of every such       *)
(* record, in the order they were added.                                   *)
(***************************************************************************)
C7_FirstOfTagName ==
    \A t \in SeenTags :
        LET name == TagGroupName(t)
            first == CHOOSE i \in 1..Len(log) :
                        HasTagNamed(log[i], name)
                        /\ \A j \in 1..(i - 1) : ~HasTagNamed(log[j], name)
            key == S_first_in \o name
        IN  /\ key \in DOMAIN inventory
            /\ inventory[key] = <<EntryDest(log[first])>>
            /\ name \in DOMAIN inventory
            /\ inventory[name] = TagEndpoints(log, name)

\* a second record with the tag of the first, at another address
C7_Reached ==
    /\ Len(log) = 2
    /\ EntryTags(log[1]) # <<>>
    /\ EntryTags(log[1]) = EntryTags(log[2])
    /\ EntryDest(log[1]) # EntryDest(log[2])
    /\ LET name == TagGroupName(EntryTags(log[1])[1])
       IN  /\ inventory[S_first_in \o name] = <<EntryDest(log[1])>>
           /\ inventory[name] = <<EntryDest(log[1]), EntryDest(log[2])>>

\* the calls of the run so far all returned: none ended in sys.exit or an
\* AttributeError half way
AddsReturned == last \notin {"exit", "attr_error"}

(***************************************************************************)
(* C8.  As claimed: after any sequence of successful adds, every record    *)
(* that was added has its own group inventory[record.id], holding exactly  *)
(* that record's endpoint.                                                 *)
(***************************************************************************)
C8_GroupOfOwnEndpoint ==
    AddsReturned =>
        \A i \in 1..Len(log) :
            /\ log[i].instance.id \in DOMAIN inventory
            /\ inventory[log[i].instance.id] = <<EntryDest(log[i])>>

(***************************************************************************)
(* C8, amended.  Two added records can carry the same id (a database       *)
(* identifier is unique within one region only): after any sequence of     *)
(* successful adds, inventory[record.id] is a one-element sequence for     *)
(* every added record, holding the endpoint of the record added last       *)
(* under that id.                                                          *)
(***************************************************************************)
C8_GroupOfOne ==
    AddsReturned =>
        \A i \in 1..Len(log) :
            LET id == log[i].instance.id
                latest == CHOOSE j \in i..Len(log) :
                             /\ log[j].instance.id = id
                             /\ \A k \in (j + 1)..Len(log) : log[k].instance.id # id
            IN  /\ id \in DOMAIN inventory
                /\ Len(inventory[id]) = 1
                /\ inventory[id] = <<EntryDest(log[latest])>>

\* two records of one id at two endpoints were added: the group is the later one's
C8_Reached ==
    /\ Len(log) = 2
    /\ log[1].instance.id = log[2].instance.id
    /\ EntryDest(log[1]) # EntryDest(log[2])
    /\ inventory[log[1].instance.id] = <<EntryDest(log[2])>>

(***************************************************************************)
(* C9.  From an empty inventory and index, with name resolution disabled,  *)
(* adding one running compute record (region R, zone Z, type T, one tag    *)
(* k=v, no subnet, public address A, id I, no key name, no security        *)
(* group) gives the six groups R, Z, type_T, tag_k_v, first_in_tag_k_v and *)
(* I, each [A], and the index {A: [R, I]}.  For the record of type t2.m    *)
(* tagged env=p.1 the groups are type_t2_m, tag_env_p_1 and                *)
(* first_in_tag_env_p_1.                                                   *)
(***************************************************************************)
C9_OneRecordGroups ==
    (/\ ~route53_enabled
     /\ caller = "init"
     /\ AddsReturned
     /\ Len(log) = 1
     /\ log[1].kind = "ec2"
     /\ log[1].instance.subnet_id \in {None, <<>>}
     /\ log[1].instance.key_name \in {None, <<>>}
     /\ log[1].instance.groups = <<>>
     /\ Len(log[1].instance.tags) = 1)
    => LET i == log[1].instance
           A == i.public_dns_name
           R == log[1].region
           tag == TagGroupName(i.tags[1])
           type == [n \in 1..(5 + Len(i.instance_type)) |->
                      LET c == (<<"t","y","p","e","_">> \o i.instance_type)[n]
                      IN  IF c \in Lower \cup Upper \cup Digit \cup {"-"} THEN c ELSE "_"]
           groups == {R, i.placement, type, tag, <<"f","i","r","s","t","_","i","n","_">> \o tag,
                      i.id}
       IN  /\ Cardinality(groups) = 6
           /\ DOMAIN inventory = groups
           /\ \A g \in groups : inventory[g] = <<A>>
           /\ index.t = "dict"
           /\ DOMAIN index.v = {A}
           /\ index.v[A] = <<R, i.id>>
           /\ (i.instance_type = <<"t","2",".","m">>
                 => type = <<"t","y","p","e","_","t","2","_","m">>)
           /\ (i.tags[1] = << <<"e","n","v">>, <<"p",".","1">> >>
                 => tag = <<"t","a","g","_","e","n","v","_","p","_","1">>)

\* the one record env=p.1 of type t2.m at 1.1 was added in the first region
C9_Reached ==
    /\ ~route53_enabled
    /\ caller = "init"
    /\ AddsReturned
    /\ Len(log) = 1
    /\ log[1].instance = C_plain
    /\ log[1].region = R1
    /\ inventory[<<"f","i","r","s","t","_","i","n","_","t","a","g","_","e","n","v","_","p","_","1">>]
         = <<A1>>
    /\ index.v = (A1 :> <<R1, I1>>)

(***************************************************************************)
(* C10.  The index is last-write-wins per endpoint: after any sequence of  *)
(* successful adds, index[dest] is the [region, id] of the record added    *)
(* last under dest, also when an earlier record of that endpoint came from *)
(* another region or was of the other resource kind.                       *)
(***************************************************************************)
C10_IndexLastWriteWins ==
    AddsReturned =>
        \A i \in 1..Len(log) :
            LET dest == EntryDest(log[i])
                latest == CHOOSE j \in i..Len(log) :
                             /\ EntryDest(log[j]) = dest
                             /\ \A k \in (j + 1)..Len(log) : EntryDest(log[k]) # dest
            IN  /\ index.t = "dict"
                /\ dest \in DOMAIN index.v
                /\ index.v[dest] = <<log[latest].region, log[latest].instance.id>>

\* one endpoint added twice, from two regions and as two resource kinds
C10_Reached ==
    /\ Len(log) = 2
    /\ EntryDest(log[1]) = EntryDest(log[2])
    /\ log[1].region # log[2].region
    /\ log[1].kind # log[2].kind
    /\ log[1].instance.id # log[2].instance.id
    /\ index.v[EntryDest(log[1])] = <<log[2].region, log[2].instance.id>>

\* the group name begins with 'tag_'
HasTagPrefix(key) == Len(key) >= Len(S_tag) /\ SubSeq(key, 1, Len(S_tag)) = S_tag

(***************************************************************************)
(* C11.  In tags-only mode the projection a refresh writes to the tags     *)
(* cache file, and the one list prints, hold only group names that begin   *)
(* with 'tag_': no 'first_in_tag_...' group is in it.                      *)
(* json_format_dict keeps every key that contains 'tag_' anywhere, so      *)
(* this fails.                                                             *)
(***************************************************************************)
C11_OnlyTagPrefix ==
    args.tags_only =>
        /\ (pc = "write_index" /\ tags_file.text.fmt = "array")
              => \A key \in tags_file.text.val : HasTagPrefix(key)
        /\ (pc = "done" /\ ~Truthy(args.host) /\ output.fmt = "array")
              => \A key \in output.val : HasTagPrefix(key)

\* a tags-only refresh that added a tagged record has written the tags file
C11_Reached ==
    /\ args.tags_only
    /\ pc = "write_index"
    /\ \E i \in 1..Len(log) : EntryTags(log[i]) # <<>>
    /\ \E key \in tags_file.text.val : ~HasTagPrefix(key)

(***************************************************************************)
(* C12.  The entry point runs Ec2Inventory() at most RETRIES (3) times:    *)
(* every attempt starts from the loop with an empty inventory and index;   *)
(* an attempt that completes ends the run; after an attempt that failed    *)
(* with an exception another one starts, while fewer than three were       *)
(* begun; after the third failure nothing more happens.                    *)
(***************************************************************************)
C12_AtMostRetriesAttempts ==
    /\ [](attempt <= 3)
    /\ [][attempt' # attempt =>
            /\ pc = "loop"
            /\ attempt' = attempt + 1
            /\ inventory' = <<>>
            /\ index' = EmptyDict]_vars
    /\ [](pc = "done" => ~ENABLED Next)
    /\ []((pc = "loop" /\ attempt \in 1..2) => ENABLED Construct)
    /\ []((pc = "loop" /\ attempt = 3) => ~ENABLED Next)

\* the third attempt has failed, after it had added a record
C12_Reached == pc = "loop" /\ attempt = 3 /\ inventory # <<>>

(***************************************************************************)
(* C13.  push called N times on one key, absent at first, leaves at that   *)
(* key the sequence of the N pushed elements in call order, duplicates     *)
(* kept, and every other key of the dict as it was.                        *)
(***************************************************************************)
C13_PushAppendsInOrder ==
    pushed # <<>> =>
        /\ DOMAIN my_dict = DOMAIN start \cup {PushKey}
        /\ Len(my_dict[PushKey]) = Len(pushed)
        /\ my_dict[PushKey] = pushed
        /\ \A key \in DOMAIN start : my_dict[key] = start[key]

\* three pushes on the key, the first element pushed again, beside two other groups
C13_Reached ==
    /\ PushKey \notin DOMAIN start
    /\ Cardinality(DOMAIN start) = 2
    /\ Len(pushed) = 3
    /\ pushed[1] = pushed[3]
    /\ pushed[1] # pushed[2]
    /\ my_dict[PushKey] = pushed

(***************************************************************************)
(* C14.  to_safe is idempotent: to_safe(to_safe(x)) = to_safe(x) for every *)
(* word x.                                                                 *)
(***************************************************************************)
C14_ToSafeIdempotent ==
    Len(results) = 2 => results[2] = results[1]

\* to_safe was applied twice to a word it changes
C14_Reached ==
    /\ Len(results) = 2
    /\ results[1] # word
    /\ results[2] = results[1]

\* the characters to_safe leaves alone: letters, digits and the hyphen
IsAlnumOrHyphen(c) ==
    c \in {"a","b","c","d","e","f","g","h","i","j","k","l","m","n","o","p","q","r","s","t",
           "u","v","w","x","y","z","A","B","C","D","E","F","G","H","I","J","K","L","M","N",
           "O","P","Q","R","S","T","U","V","W","X","Y","Z","0","1","2","3","4","5","6","7",
           "8","9","-"}

(***************************************************************************)
(* C15.  As claimed: the output of to_safe has only characters of          *)
(* [A-Za-z0-9_-], has the length of the input, and differs from the input  *)
(* exactly at the positions whose character is no letter, digit or hyphen. *)
(***************************************************************************)
C15_DiffersAtEveryBadPosition ==
    results # <<>> =>
        /\ Len(results[1]) = Len(word)
        /\ \A i \in 1..Len(word) :
              /\ IsAlnumOrHyphen(results[1][i]) \/ results[1][i] = "_"
              /\ results[1][i] # word[i] <=> ~IsAlnumOrHyphen(word[i])

(***************************************************************************)
(* C15, amended.  The output of to_safe has only characters of             *)
(* [A-Za-z0-9_-] and the length of the input; it equals the input at the   *)
(* positions whose character is a letter, a digit or a hyphen and is an    *)
(* underscore at every other position, so an underscore of the input stays *)
(* as it is.                                                               *)
(***************************************************************************)
C15_SafeCharsSameLength ==
    results # <<>> =>
        /\ Len(results[1]) = Len(word)
        /\ \A i \in 1..Len(word) :
              /\ IsAlnumOrHyphen(results[1][i]) \/ results[1][i] = "_"
              /\ IsAlnumOrHyphen(word[i]) => results[1][i] = word[i]
              /\ ~IsAlnumOrHyphen(word[i]) => results[1][i] = "_"

\* a word with a hyphen, an underscore and a dot went through to_safe
C15_Reached ==
    /\ word = <<"-", "_", ".">>
    /\ results # <<>>
    /\ results[1] = <<"-", "_", "_">>

(***************************************************************************)
(* C16.  __init__ decides on the refresh before any output: when the       *)
(* refresh is forced, or the payload file is missing or too old, or the    *)
(* index file is missing (be the payload fresh), the refresh runs first,   *)
(* through every configured region, and nothing is printed until it has    *)
(* written the cache; when the cache is valid and no refresh is forced, a  *)
(* list query calls the adapter not once and prints the text of the        *)
(* payload file as it is.                                                  *)
(***************************************************************************)
C16_RefreshDecidedBeforeOutput ==
    /\ [][(pc = "loop" /\ pc' # "loop") =>
            IF \/ args.refresh_cache
               \/ ~Payload.exists
               \/ ~(now < Payload.mtime + CacheMaxAge)
               \/ ~index_file.exists
              THEN pc' \in {"route53", "ec2"} /\ refreshes' = 1 /\ region_ix' = 1
              ELSE pc' = "print" /\ refreshes' = 0]_vars
    /\ []((pc = "print" /\ refreshes = 1) =>
            /\ region_ix = Len(regions)
            /\ Payload.exists
            /\ SameText(Payload.text, json_format_dict(inventory, args.tags_only))
            /\ index_file.exists)
    /\ [](pc \in {"route53", "ec2", "add_instance", "rds", "add_rds_instance",
                  "write_payload", "write_index", "print"} => output = NoOutput)
    /\ []((pc = "print" /\ refreshes = 0) => (last = "idle" /\ log = <<>> /\ fetches = 0))
    /\ [][(pc = "print" /\ ~Truthy(args.host) /\ refreshes = 0) =>
            /\ pc' = "done"
            /\ SameText(output', Payload.text)
            /\ handed' = handed
            /\ fetches' = 0
            /\ refreshes' = 0]_vars

\* unforced, the list was printed from a refresh that found records
C16_Reached ==
    /\ pc = "done"
    /\ ~args.refresh_cache
    /\ ~Truthy(args.host)
    /\ refreshes = 1
    /\ log # <<>>
    /\ SameText(output, json_format_dict(inventory, args.tags_only))
    /\ SameText(output, Payload.text)

\* the three cache files
CacheFiles == <<cache_file, tags_file, index_file>>

(***************************************************************************)
(* C17.  The cache files are written only when a refresh has come through  *)
(* every configured region, for both resource kinds: no step of the        *)
(* refresh before that touches them, so a refresh that ends in sys.exit or *)
(* an exception in a region or on a record leaves the payload file and the *)
(* index file as they were when it started.                                *)
(***************************************************************************)
C17_WrittenOnCompletionOnly ==
    /\ [][(pc \in {"route53", "ec2", "add_instance", "rds", "add_rds_instance"})
            => (CacheFiles' = CacheFiles)]_vars
    /\ [][(CacheFiles' # CacheFiles /\ attempt > 0) =>
            /\ pc \in {"write_payload", "write_index"}
            /\ region_ix = Len(regions)
            /\ pending = <<>>]_vars
    /\ [][(pc \in {"route53", "ec2", "add_instance", "rds", "add_rds_instance"}
           /\ pc' \in {"write_payload", "write_index"})
            => (pc \in {"rds", "add_rds_instance"} /\ region_ix = Len(regions)
                /\ pc' = "write_payload")]_vars

\* a refresh that had added a record ended in sys.exit in the last region: no file written
C17_Reached ==
    /\ pc = "exited"
    /\ region_ix = Len(regions)
    /\ log # <<>>
    /\ refreshes = 1
    /\ ~cache_file.exists
    /\ ~tags_file.exists
    /\ ~index_file.exists

(***************************************************************************)
(* C18.  After any completed refresh, in full and in tags-only mode, the   *)
(* index file holds endpoint -> [region, id] for every endpoint of the     *)
(* in-memory index: load_index_from_cache of that file gives a mapping     *)
(* equal to the index that was written.                                    *)
(* write_to_cache sends the index through json_format_dict, which in       *)
(* tags-only mode writes the list of its keys containing 'tag_', so this   *)
(* fails.                                                                  *)
(***************************************************************************)
C18_IndexRoundTrip ==
    RefreshDone =>
        /\ index_file.exists
        /\ json_loads(index_file.text).t = index.t
        /\ index.t = "dict" => json_loads(index_file.text).v = index.v

\* a tags-only refresh that added a record is over: the index file holds a list
C18_Reached ==
    /\ RefreshDone
    /\ args.tags_only
    /\ log # <<>>
    /\ index.t = "dict"
    /\ index_file.text.fmt = "array"

(***************************************************************************)
(* C19.  A failure of the adapter during a run (no connection, or a server *)
(* error, in compute discovery, database discovery or the single-instance  *)
(* fetch) stops the process there: no further attempt is started, nothing  *)
(* is printed.                                                             *)
(* A database connection that is None is skipped in silence, and a server  *)
(* error of the single-instance fetch is an exception the RETRIES loop     *)
(* catches, so this fails.                                                 *)
(***************************************************************************)
C19_AdapterFailureIsHardStop ==
    last \in {"ec2_conn_none", "ec2_conn_error", "rds_conn_none", "rds_conn_error",
              "get_instance_conn_none", "get_instance_error"}
        => (pc = "exited" /\ output = NoOutput /\ ~ENABLED Next)

\* the single-instance fetch raised and the loop is about to start another attempt
C19_Reached ==
    /\ last = "get_instance_error"
    /\ pc = "loop"
    /\ attempt \in 1..2
    /\ ENABLED Construct

\* the record add_instance or add_rds_instance is called with
Record == Head(pending)

\* the record is running or available, has a destination, and the index takes it
Addressable ==
    /\ index.t = "dict"
    /\ \/ /\ pc = "add_instance"
          /\ Record.state = S_running
          /\ (IF Record.subnet_id \in {None, <<>>} THEN Record.public_dns_name
              ELSE Record.ip_address) \notin {None, <<>>}
       \/ /\ pc = "add_rds_instance"
          /\ Record.status = S_available
          /\ Record.endpoint[1] \notin {None, <<>>}

\* the record lacks the security-group accessor
LacksGroups ==
    \/ pc = "add_instance" /\ Record.has_placement /\ ~Record.has_groups
    \/ pc = "add_rds_instance" /\ ~Record.has_security_group

\* the record lacks another attribute the call reads before or after it
LacksOther ==
    \/ pc = "add_instance" /\ ~Record.has_placement
    \/ pc = "add_rds_instance" /\ Record.has_security_group /\ ~Record.has_engine

(***************************************************************************)
(* C20.  As claimed: a running, addressable record that lacks an expected  *)
(* attribute (the security-group accessor, the placement, the engine) ends *)
(* the whole run: the refresh goes on to no later record, writes no cache  *)
(* file, and the process stops.                                            *)
(***************************************************************************)
C20_MissingAttributeEndsRun ==
    last \in {"exit", "attr_error"} => (pc = "exited" /\ ~ENABLED Next)

(***************************************************************************)
(* C20, amended.  A running, addressable record that lacks an expected     *)
(* attribute is never skipped: the call ends the refresh, which goes on to *)
(* no later record and writes no cache file.  Without the security-group   *)
(* accessor the call ends in sys.exit(1) and the run is over; without      *)
(* another attribute (placement, engine) it raises an AttributeError,      *)
(* which ends the attempt only: the RETRIES loop starts the next attempt   *)
(* while fewer than three were begun.                                      *)
(***************************************************************************)
C20_MissingAttributeEndsAttempt ==
    /\ [][(pc \in {"add_instance", "add_rds_instance"} /\ Addressable
           /\ (LacksGroups \/ LacksOther)) =>
            /\ pc' = IF LacksGroups THEN "exited" ELSE "loop"
            /\ last' = IF LacksGroups THEN "exit" ELSE "attr_error"
            /\ pending' = <<>>
            /\ log' = log
            /\ CacheFiles' = CacheFiles]_vars
    /\ [](last = "exit" => (pc = "exited" /\ ~ENABLED Next))
    /\ [](last = "attr_error" =>
            /\ pc = "loop"
            /\ ENABLED Next <=> attempt < 3
            /\ ENABLED Next => ENABLED Construct)
    /\ [][last = "attr_error" => (CacheFiles' = CacheFiles /\ attempt' = attempt + 1)]_vars

\* a record without placement ended the first attempt, after another record was added
C20_Reached ==
    /\ last = "attr_error"
    /\ pc = "loop"
    /\ attempt = 1
    /\ log # <<>>
    /\ ENABLED Construct

\* the inventory and the index were built from empty by the calls of the
\* refresh the constructor started, each of which returned
BuiltFromEmpty == caller = "init" /\ refreshes = 1 /\ index.t = "dict" /\ AddsReturned

\* the endpoint is in the group
InGroup(dest, group) == \E i \in 1..Len(group) : group[i] = dest

\* every endpoint in a group of the inventory is a key of the index
EndpointsIndexed ==
    \A key \in DOMAIN inventory :
        \A i \in 1..Len(inventory[key]) : inventory[key][i] \in DOMAIN index.v

(***************************************************************************)
(* C21.  As claimed: in every state a sequence of add_instance and         *)
(* add_rds_instance calls reaches from an empty inventory and index, each  *)
(* index entry dest -> [region, id] has inventory[id] = [dest] and dest in *)
(* inventory[region], and every endpoint in a group is a key of the index. *)
(***************************************************************************)
C21_IndexEntryOwnsIdGroup ==
    BuiltFromEmpty =>
        /\ \A dest \in DOMAIN index.v :
              LET region == index.v[dest][1]
                  id == index.v[dest][2]
              IN  /\ id \in DOMAIN inventory
                  /\ inventory[id] = <<dest>>
                  /\ region \in DOMAIN inventory
                  /\ InGroup(dest, inventory[region])
        /\ EndpointsIndexed

(***************************************************************************)
(* C21, amended.  Each index entry dest -> [region, id] has dest in        *)
(* inventory[region], and inventory[id] is a one-element group holding the *)
(* endpoint of the record added last under that id: that is [dest] unless  *)
(* a later record carried the same id at another endpoint (the same        *)
(* database identifier in two regions).  Every endpoint in a group is a    *)
(* key of the index.                                                       *)
(***************************************************************************)
C21_IndexEntryInRegionGroup ==
    BuiltFromEmpty =>
        /\ \A dest \in DOMAIN index.v :
              LET region == index.v[dest][1]
                  id == index.v[dest][2]
                  same == {i \in 1..Len(log) : log[i].instance.id = id}
                  latest == CHOOSE i \in same : \A j \in same : j <= i
              IN  /\ region \in DOMAIN inventory
                  /\ InGroup(dest, inventory[region])
                  /\ id \in DOMAIN inventory
                  /\ same # {}
                  /\ inventory[id] = <<EntryDest(log[latest])>>
                  /\ inventory[id] # <<dest>> =>
                        \E i, j \in same : i < j /\ EntryDest(log[i]) = dest
                                                 /\ EntryDest(log[j]) # dest
        /\ EndpointsIndexed

\* one identifier added at two endpoints: the index entry of the first endpoint
\* names an id group that holds the second
C21_Reached ==
    /\ BuiltFromEmpty
    /\ Len(log) = 2
    /\ log[1].instance.id = log[2].instance.id
    /\ EntryDest(log[1]) # EntryDest(log[2])
    /\ index.v[EntryDest(log[1])][2] = log[1].instance.id
    /\ inventory[log[1].instance.id] = <<EntryDest(log[2])>>
    /\ InGroup(EntryDest(log[1]), inventory[log[1].region])

\* what is_cache_valid returns to the second invocation in this state
ReaderSeesValid == is_cache_valid(reader.tags_only, cache_file, tags_file, index_file, now)

\* the payload file of the refreshing invocation
Payload_file == PayloadFile(args.tags_only, cache_file, tags_file)

\* the refresh is between its first open() and its last close()
Writing == pc \in {"close_payload", "write_index", "close_index"}

(***************************************************************************)
(* C22.  The refresh writes the payload file and then the index file as    *)
(* two separate overwrites, neither atomic nor locked: no step changes     *)
(* both files; a file opened for writing stays cut short until its close;  *)
(* the payload file is whole before the index file is touched; and a       *)
(* second invocation is never held back: between the first open and the    *)
(* last close its validity test can run and, whenever an index file of any *)
(* age lies on disk, returns true.  The state the claim names is           *)
(* C22_Reached.                                                            *)
(***************************************************************************)
C22_TwoSeparateUnlockedWrites ==
    /\ [][(Payload_file' # Payload_file) => (index_file' = index_file)]_vars
    /\ [][(index_file' # index_file /\ attempt > 0) =>
            /\ pc \in {"write_index", "close_index"}
            /\ Payload_file' = Payload_file
            /\ Payload_file = WrittenFile(json_format_dict(inventory, args.tags_only), now)]_vars
    /\ [](pc = "close_payload" => Payload_file = PartFile(now))
    /\ [](pc = "close_index" => index_file = PartFile(now))
    /\ [](reader.pc = "start" => ENABLED ReaderConstruct)
    /\ [](reader.pc = "valid" => ENABLED (ReaderGetInventoryFromCache \/ ReaderLoadIndex))
    /\ []((Writing /\ index_file.exists) => ReaderSeesValid)

\* the validity test returned true to the second invocation between the two
\* writes, and it loaded an index: the payload file is of this refresh, the
\* index file and the index loaded are of the refresh before
C22_Reached ==
    /\ pc = "write_index"
    /\ log # <<>>
    /\ now > 0
    /\ Payload_file = WrittenFile(json_format_dict(inventory, args.tags_only), now)
    /\ index_file.exists
    /\ index_file.mtime < Payload_file.mtime
    /\ reader.at = "write_index"
    /\ reader.pc = "loaded"
    /\ reader.seen = index_file.text
    /\ json_loads(reader.seen) # index

\* the second invocation printed a payload file that was only partly written
C22_ReachedPartial ==
    /\ reader.at = "close_payload"
    /\ reader.pc = "printed"
    /\ reader.seen.fmt = "partial"

=============================================================================
